---- MODULE Spec2Model ----
(***************************************************************************)
(* A model of CocaKE_ver3/doc.py: the Dataset and its index structures,    *)
(* load_data, to_indices_and_mask and the RelationBatchSampler.            *)
(*                                                                         *)
(* Python values are modelled as follows.                                  *)
(*   - a str relation is a sequence of tokens: the forward relation r1 is  *)
(*     <<"r1">> and 'inverse r1' is <<"inverse ", "r1">>, so that          *)
(*     relation[:8] == "inverse " is a test of the first token and         *)
(*     relation[8:] is the Tail;                                           *)
(*   - a list is a sequence, a dict is a function whose DOMAIN is the set  *)
(*     of its keys (the empty dict is <<>>);                               *)
(*   - example indices are 0-based, as enumerate() gives them;             *)
(*   - cake_ratio is a float with an exact binary representation, kept as  *)
(*     [num, den] with den a power of two, so that batch_size * cake_ratio *)
(*     is exact in floating point and int()/round() act on the rational.   *)
(***************************************************************************)
EXTENDS Integers, Sequences, FiniteSets, TLC

VARIABLES
    path_list,      \* Dataset.__init__: the files named by path.split(',')
    examples_arg,   \* Dataset.__init__: the examples argument
    ds,             \* the Dataset object
    info,           \* the dict a caller got from ds.ds_info()
    load_call,      \* a direct call of load_data and its result
    sampler,        \* the RelationBatchSampler object
    args,           \* config.args: batch_size and cake_ratio
    gen,            \* the generator frame of RelationBatchSampler.__iter__
    pad             \* a call of to_indices_and_mask and its result

vars == <<path_list, examples_arg, ds, info, load_call, sampler, args, gen, pad>>

(***************************************************************************)
(* Bounds of the model.                                                    *)
(***************************************************************************)
MaxExamples == 2    \* length of an examples list handed to Dataset
MaxFiles == 2       \* number of paths in path_list
MaxTriplets == 2    \* number of triplets in one JSON file
MaxMutations == 1   \* number of mutations a caller performs on ds_info()
MaxBatch == 2       \* number of tensors handed to to_indices_and_mask
MaxSeqLen == 2      \* length of one tensor

(***************************************************************************)
(* Python helpers.                                                         *)
(***************************************************************************)
Range(s) == {s[j] : j \in 1..Len(s)}

\* d[k] = v on a dict
DictSet(d, k, v) == [x \in (DOMAIN d) \cup {k} |-> IF x = k THEN v ELSE d[x]]

\* del d[k]
DictDel(d, k) == [x \in (DOMAIN d) \ {k} |-> d[x]]

\* All sequences over S of length lo..hi
SeqsOf(S, lo, hi) == UNION {[1..n -> S] : n \in lo..hi}

RECURSIVE SetToSortedSeq(_)
\* list(set(xs)) for a set of small non-negative ints: CPython iterates such a
\* set in increasing order (hash(i) = i, no collisions below the table size).
SetToSortedSeq(S) ==
    IF S = {} THEN <<>>
    ELSE LET m == CHOOSE x \in S : \A y \in S : x <= y
         IN <<m>> \o SetToSortedSeq(S \ {m})

RECURSIVE SumLens(_)
SumLens(ss) == IF ss = <<>> THEN 0 ELSE Len(Head(ss)) + SumLens(Tail(ss))

(***************************************************************************)
(* The world the program runs in: entities, relations, JSON triplets.      *)
(***************************************************************************)
R1 == <<"r1">>
R2 == <<"r2">>

Obj(h, r, t) == [head_id |-> h, relation |-> r, tail_id |-> t]

\* Example.__init__: keeps head_id, tail_id and relation
Example(obj) == [head_id |-> obj.head_id, tail_id |-> obj.tail_id,
                 relation |-> obj.relation]

\* triplet.reverse_triplet: head and tail swapped, relation 'inverse <relation>'
reverse_triplet(obj) == [head_id |-> obj.tail_id,
                         relation |-> <<"inverse ">> \o obj.relation,
                         tail_id |-> obj.head_id]

\* entity_dict.get_entity_by_id(id).entity
EntityName == [id \in {"h1", "h2", "e1", "e2"} |->
                 CASE id = "h1" -> "head one"
                   [] id = "h2" -> "head two"
                   [] id = "e1" -> "tail one"
                   [] OTHER -> "tail two"]

\* Example.head
ExampleHead(example) ==
    IF example.head_id = "" THEN "" ELSE EntityName[example.head_id]

\* The triplets a JSON file may hold
TripletUniverse == {Obj("h1", R1, "e1"), Obj("h1", R2, "e2")}

\* The examples a caller may hand to Dataset: forward triplets (two of them with
\* the same relation and tail) and reversed ones
ExampleUniverse ==
    {Example(o) : o \in {Obj("h1", R1, "e1"), Obj("h2", R1, "e1"),
                         Obj("e1", R1, "h1"), Obj("h1", R2, "e2")}}
        \cup {Example(reverse_triplet(o)) : o \in {Obj("h1", R1, "e1"), Obj("h2", R1, "e1")}}

\* One entry of path_list: whether the file exists, whether its name ends in
\* '.json', and the JSON array it holds
File(exists, json, data) == [exists |-> exists, json |-> json, data |-> data]

FileUniverse ==
    {File(TRUE, TRUE, d) : d \in SeqsOf(TripletUniverse, 0, MaxTriplets)}
        \cup {File(FALSE, TRUE, <<>>), File(TRUE, FALSE, <<>>)}

(***************************************************************************)
(* load_data                                                               *)
(***************************************************************************)
Raised(what) == [state |-> what, value |-> <<>>]
Returned(v) == [state |-> "returned", value |-> v]

RECURSIVE load_loop(_, _, _)
\* for i in range(cnt): append the forward and/or the backward Example
load_loop(data, add_forward_triplet, add_backward_triplet) ==
    IF data = <<>> THEN <<>>
    ELSE (IF add_forward_triplet THEN <<Example(Head(data))>> ELSE <<>>)
         \o (IF add_backward_triplet THEN <<Example(reverse_triplet(Head(data)))>> ELSE <<>>)
         \o load_loop(Tail(data), add_forward_triplet, add_backward_triplet)

load_data(file, add_forward_triplet, add_backward_triplet) ==
    IF ~file.json THEN Raised("AssertionError")
    ELSE IF ~(add_forward_triplet \/ add_backward_triplet) THEN Raised("AssertionError")
    ELSE IF ~file.exists THEN Raised("FileNotFoundError")
    ELSE Returned(load_loop(file.data, add_forward_triplet, add_backward_triplet))

(***************************************************************************)
(* Dataset.__init__                                                        *)
(***************************************************************************)
RECURSIVE LoadPathsAlwaysAssign(_, _)
\* the loop over path_list, were every load assigned instead of extended
LoadPathsAlwaysAssign(paths, acc) ==
    IF paths = <<>> THEN Returned(acc)
    ELSE LET r == load_data(Head(paths), TRUE, TRUE)
         IN IF r.state # "returned" THEN r
            ELSE LoadPathsAlwaysAssign(Tail(paths), r.value)

RECURSIVE LoadPaths(_, _)
\* for path in self.path_list: assign the first non-empty load, extend after
LoadPaths(paths, acc) ==
    IF paths = <<>> THEN Returned(acc)
    ELSE LET r == load_data(Head(paths), TRUE, TRUE)
         IN IF r.state # "returned" THEN r
            ELSE IF acc = <<>> THEN LoadPaths(Tail(paths), r.value)
            ELSE LoadPaths(Tail(paths), acc \o r.value)

NewDataset == [state |-> "new", examples |-> <<>>, rels |-> <<>>,
               rel2ent_t |-> <<>>, rel_ex_cnt |-> <<>>, rel_hent |-> <<>>,
               ex_hid |-> <<>>, idx2example |-> <<>>]

\* lines 143-147: both branches assign the one-element list [i]
BucketAssign(rel2ent_t, example, i) ==
    IF example.relation \in DOMAIN rel2ent_t
    THEN DictSet(rel2ent_t, example.relation,
                 DictSet(rel2ent_t[example.relation], example.tail_id, <<i>>))
    ELSE DictSet(rel2ent_t, example.relation,
                 DictSet(<<>>, example.tail_id, <<i>>))

\* the body of `for i, example in enumerate(self.examples)`
IndexStep(d, i, example) ==
    [d EXCEPT
       !.idx2example = DictSet(@, i, example),
       !.ex_hid = DictSet(@, i, example.head_id),
       !.rels = Append(@, example.relation),
       !.rel2ent_t = BucketAssign(@, example, i),
       !.rel_ex_cnt = IF example.relation \in DOMAIN @
                      THEN DictSet(@, example.relation, @[example.relation] + 1)
                      ELSE DictSet(@, example.relation, 1),
       !.rel_hent = IF example.relation \in DOMAIN @
                    THEN DictSet(@, example.relation,
                                 Append(@[example.relation], ExampleHead(example)))
                    ELSE DictSet(@, example.relation, <<ExampleHead(example)>>)]

RECURSIVE IndexExamples(_, _)
IndexExamples(d, i) ==
    IF i >= Len(d.examples) THEN d
    ELSE IndexExamples(IndexStep(d, i, d.examples[i + 1]), i + 1)

\* Dataset(path, task, examples): the object, or the exception raised
DatasetNew(paths, examples) ==
    IF ~((\A j \in 1..Len(paths) : paths[j].exists) \/ examples # <<>>)
    THEN [NewDataset EXCEPT !.state = "AssertionError"]
    ELSE IF examples # <<>>
    THEN IndexExamples([NewDataset EXCEPT !.state = "built", !.examples = examples], 0)
    ELSE LET r == LoadPaths(paths, <<>>)
         IN IF r.state # "returned" THEN [NewDataset EXCEPT !.state = r.state]
            ELSE IndexExamples([NewDataset EXCEPT !.state = "built",
                                                  !.examples = r.value], 0)

\* Dataset.__len__
DatasetLen(d) == Len(d.examples)

(***************************************************************************)
(* Dataset.ds_info.  copy() is shallow: "rels" and "rel_ex_cnt" hold       *)
(* immutable values and are the caller's own; the copy of rel2ent_t is a   *)
(* new outer dict whose values are the Dataset's own inner dicts, kept     *)
(* here as references (the relation under which the Dataset created the    *)
(* inner dict); "ex_hid" and "id2example" are the Dataset's own objects,   *)
(* reached through ds.                                                     *)
(***************************************************************************)
NoInfo == [taken |-> FALSE, rels |-> <<>>, rel2ent_t |-> <<>>,
           rel_ex_cnt |-> <<>>, ex_cnt |-> 0, mutations |-> 0]

ds_info(d) == [taken |-> TRUE,
               rels |-> d.rels,
               rel2ent_t |-> [r \in DOMAIN d.rel2ent_t |-> r],
               rel_ex_cnt |-> d.rel_ex_cnt,
               ex_cnt |-> Len(d.examples),
               mutations |-> 0]

\* What the caller reads through the returned dict
InfoView(nfo, d) ==
    [rels |-> nfo.rels,
     rel2ent_t |-> [r \in DOMAIN nfo.rel2ent_t |-> d.rel2ent_t[nfo.rel2ent_t[r]]],
     rel_ex_cnt |-> nfo.rel_ex_cnt,
     ex_cnt |-> nfo.ex_cnt,
     ex_hid |-> d.ex_hid,
     id2example |-> d.idx2example]

(***************************************************************************)
(* to_indices_and_mask                                                     *)
(***************************************************************************)
MaxOf(S) == CHOOSE x \in S : \A y \in S : y <= x

\* torch.LongTensor(rows, cols).fill_(0), whatever pad_token_id is
FillZero(rows, cols, value) == [r \in 1..rows |-> [c \in 1..cols |-> 0]]

\* torch.LongTensor(rows, cols).fill_(value)
Fill(rows, cols, value) == [r \in 1..rows |-> [c \in 1..cols |-> value]]

\* tensor[i, :len(t)].copy_(t)
CopyPrefix(tensor, i, t) ==
    [tensor EXCEPT ![i] = [c \in 1..Len(@) |-> IF c <= Len(t) THEN t[c] ELSE @[c]]]

\* tensor[i, :n].fill_(1)
FillPrefix(tensor, i, n) ==
    [tensor EXCEPT ![i] = [c \in 1..Len(@) |-> IF c <= n THEN 1 ELSE @[c]]]

RECURSIVE PadRows(_, _, _)
\* for i, t in enumerate(batch_tensor): copy row i, mark its mask
PadRows(out, batch_tensor, i) ==
    IF i > Len(batch_tensor) THEN out
    ELSE PadRows([indices |-> CopyPrefix(out.indices, i, batch_tensor[i]),
                  mask |-> IF out.need_mask
                           THEN FillPrefix(out.mask, i, Len(batch_tensor[i]))
                           ELSE out.mask,
                  need_mask |-> out.need_mask],
                 batch_tensor, i + 1)

\* The returned (indices, mask), or indices alone (mask <<>>) without need_mask;
\* max() of an empty list raises ValueError
to_indices_and_mask(batch_tensor, pad_token_id, need_mask) ==
    IF batch_tensor = <<>> THEN Raised("ValueError")
    ELSE LET mx_len == MaxOf({Len(batch_tensor[j]) : j \in 1..Len(batch_tensor)})
             batch_size == Len(batch_tensor)
             start == [indices |-> Fill(batch_size, mx_len, pad_token_id),
                       mask |-> IF need_mask THEN Fill(batch_size, mx_len, 0) ELSE <<>>,
                       need_mask |-> need_mask]
             out == PadRows(start, batch_tensor, 1)
         IN Returned([indices |-> out.indices, mask |-> out.mask])

(***************************************************************************)
(* RelationBatchSampler                                                    *)
(***************************************************************************)
\* The commonsense tables read from commonsense_path.  Entity h1 belongs to
\* both domains, e1 to the first, e2 to the second and h2 to none.
Commonsense ==
    [dom_ent |-> [k \in {"1", "2"} |-> IF k = "1" THEN <<"e1", "h1">> ELSE <<"h1", "e2">>],
     rel2dom_h |-> [r \in {R1, R2} |-> IF r = R1 THEN <<1, 2>> ELSE <<1>>],
     rel2dom_t |-> [r \in {R1, R2} |-> IF r = R1 THEN <<1>> ELSE <<2>>],
     rel2nn |-> [r \in {R1, R2} |-> IF r = R1 THEN 1 ELSE 3]]

\* str(concept)
Str == [c \in {1, 2} |-> IF c = 1 THEN "1" ELSE "2"]

Ratio(n, d) == [num |-> n, den |-> d]

NoSampler == [batch_size |-> 0, cake_ratio |-> Ratio(0, 1),
              dom_ent |-> <<>>, rel2dom_h |-> <<>>, rel2dom_t |-> <<>>, rel2nn |-> <<>>,
              rels |-> <<>>, rel2ent_t |-> <<>>, rel_ex_cnt |-> <<>>,
              length |-> 0, ex_cnt |-> 0, ex_hid |-> <<>>, id2example |-> <<>>]

\* RelationBatchSampler.__init__
SamplerNew(batch_size, commonsense, cake_ratio, view) ==
    [batch_size |-> batch_size, cake_ratio |-> cake_ratio,
     dom_ent |-> commonsense.dom_ent,
     rel2dom_h |-> commonsense.rel2dom_h,
     rel2dom_t |-> commonsense.rel2dom_t,
     rel2nn |-> commonsense.rel2nn,
     rels |-> view.rels,
     rel2ent_t |-> view.rel2ent_t,
     rel_ex_cnt |-> view.rel_ex_cnt,
     length |-> Cardinality(DOMAIN view.rel_ex_cnt),
     ex_cnt |-> view.ex_cnt,
     ex_hid |-> view.ex_hid,
     id2example |-> view.id2example]

\* RelationBatchSampler.__len__
SamplerLen(s) == s.length

\* round(batch_size * cake_ratio): Python rounds halves to even
RoundProduct(batch_size, ratio) ==
    LET n == batch_size * ratio.num
        q == n \div ratio.den
        r == n % ratio.den
    IN IF 2 * r < ratio.den THEN q
       ELSE IF 2 * r > ratio.den THEN q + 1
       ELSE IF q % 2 = 0 THEN q ELSE q + 1

\* int(args.batch_size * args.cake_ratio): truncation of a non-negative float
cake_sample_cnt(batch_size, ratio) == (batch_size * ratio.num) \div ratio.den

\* random.choices, were it to return an empty list on an empty population
RandomChoicesLenient(population, k) ==
    IF population = <<>> THEN {Returned(<<>>)}
    ELSE {Returned(f) : f \in [1..k -> Range(population)]}

\* random.choices(population, k=k): IndexError on an empty population with k > 0
RandomChoices(population, k) ==
    IF k > 0 /\ population = <<>> THEN {Raised("IndexError")}
    ELSE {Returned(f) : f \in [1..k -> Range(population)]}

\* random.choices(keys, weights, k=1)[0]: any key of positive weight
WeightedChoices(rel_ex_cnt) == {r \in DOMAIN rel_ex_cnt : rel_ex_cnt[r] > 0}

RECURSIVE Concat(_)
Concat(ss) == IF ss = <<>> THEN <<>> ELSE Head(ss) \o Concat(Tail(ss))

IsInverse(relation) == Len(relation) >= 1 /\ relation[1] = "inverse "

\* reverse_dict
reverse_dict == [c \in 0..3 |-> CASE c = 1 -> 2 [] c = 2 -> 1 [] OTHER -> c]

\* the local rel2nn of concept_filter: kept for bookkeeping only
RelNN(s, relation) ==
    IF IsInverse(relation) THEN reverse_dict[s.rel2nn[Tail(relation)]]
    ELSE s.rel2nn[relation]

\* relation_concepts
RelationConcepts(s, relation) ==
    IF IsInverse(relation) THEN s.rel2dom_h[Tail(relation)] ELSE s.rel2dom_t[relation]

\* rel_tail_exs after list(set(...)): the candidate pool
ConceptPool(s, relation) ==
    LET relation_concepts == RelationConcepts(s, relation)
        relation_ents == s.rel2ent_t[relation]
        InEnts(ent) == ent \in DOMAIN relation_ents
        rel_tail_ents ==
            Concat([c \in 1..Len(relation_concepts) |->
                      SelectSeq(s.dom_ent[Str[relation_concepts[c]]], InEnts)])
        rel_tail_exs ==
            Concat([j \in 1..Len(rel_tail_ents) |-> relation_ents[rel_tail_ents[j]]])
    IN SetToSortedSeq(Range(rel_tail_exs))

\* concept_filter(relation, example_size): the possible outcomes
concept_filter(s, relation, example_size) ==
    RandomChoices(ConceptPool(s, relation), example_size)

\* `sampled_relation not in sampled_relations`, were it always true
AlwaysFresh(sampled_relation, sampled_relations) == TRUE

\* `sampled_relation not in sampled_relations`
NotYetSampled(sampled_relation, sampled_relations) ==
    sampled_relation \notin Range(sampled_relations)

\* self.batch_size // 8
RelationShare == 8

\* The frame of a generator made by __iter__, before its first next()
NewGen == [pc |-> "for", i |-> -1, sampled_exs |-> <<>>, sampled_relations |-> <<>>,
           cake_sample_cnt |-> 0, sampled_relation |-> <<>>, temp |-> <<>>,
           random_sample_cnt |-> 0, yielded |-> 0]

\* sampled_exs[:self.batch_size], the value handed out by yield
YieldedBatch(g, s) ==
    SubSeq(g.sampled_exs, 1, IF Len(g.sampled_exs) < s.batch_size
                             THEN Len(g.sampled_exs) ELSE s.batch_size)

(***************************************************************************)
(* Idle values of the parts a specification does not exercise.             *)
(***************************************************************************)
NoArgs == [batch_size |-> 0, cake_ratio |-> Ratio(0, 1)]
NoLoadCall == [state |-> "none", file |-> File(FALSE, FALSE, <<>>),
               add_forward_triplet |-> FALSE, add_backward_triplet |-> FALSE,
               value |-> <<>>]
NoPad == [state |-> "none", batch_tensor |-> <<>>, pad_token_id |-> 0,
          need_mask |-> FALSE, value |-> [indices |-> <<>>, mask |-> <<>>]]

datasetVars == <<path_list, examples_arg, ds, info, load_call>>
samplerVars == <<sampler, args, gen>>

(***************************************************************************)
(* Actions on the Dataset.                                                 *)
(***************************************************************************)
\* Dataset(path, task, examples)
DatasetInit ==
    /\ ds.state = "new"
    /\ ds' = DatasetNew(path_list, examples_arg)
    /\ UNCHANGED <<path_list, examples_arg, info, load_call, samplerVars, pad>>

\* info = dataset.ds_info()
DsInfo ==
    /\ ds.state = "built"
    /\ info' = [ds_info(ds) EXCEPT !.mutations = info.mutations]
    /\ UNCHANGED <<path_list, examples_arg, ds, load_call, samplerVars, pad>>

CanMutate == ds.state = "built" /\ info.taken /\ info.mutations < MaxMutations

\* info["rels"].append(r)
CallerAppendRel ==
    /\ CanMutate
    /\ info' = [info EXCEPT !.rels = Append(@, R1), !.mutations = @ + 1]
    /\ UNCHANGED <<path_list, examples_arg, ds, load_call, samplerVars, pad>>

\* info["rel_ex_cnt"][r] = 0
CallerSetCount ==
    /\ CanMutate
    /\ \E r \in DOMAIN info.rel_ex_cnt :
         info' = [info EXCEPT !.rel_ex_cnt = DictSet(@, r, 0), !.mutations = @ + 1]
    /\ UNCHANGED <<path_list, examples_arg, ds, load_call, samplerVars, pad>>

\* del info["rel2ent_t"][r]
CallerDelRelation ==
    /\ CanMutate
    /\ \E r \in DOMAIN info.rel2ent_t :
         info' = [info EXCEPT !.rel2ent_t = DictDel(@, r), !.mutations = @ + 1]
    /\ UNCHANGED <<path_list, examples_arg, ds, load_call, samplerVars, pad>>

\* info["rel2ent_t"][r][t].append(0), or info["rel2ent_t"][r][t] = []: the inner
\* dict and its lists are the Dataset's own objects
CallerSetBucket ==
    /\ CanMutate
    /\ \E r \in DOMAIN info.rel2ent_t :
         LET ref == info.rel2ent_t[r]
         IN \E t \in DOMAIN ds.rel2ent_t[ref], clear \in BOOLEAN :
              ds' = [ds EXCEPT !.rel2ent_t[ref][t] = IF clear THEN <<>> ELSE Append(@, 0)]
    /\ info' = [info EXCEPT !.mutations = @ + 1]
    /\ UNCHANGED <<path_list, examples_arg, load_call, samplerVars, pad>>

\* info["ex_hid"][i] = "e2": the dict is the Dataset's own object
CallerSetHead ==
    /\ CanMutate
    /\ \E i \in DOMAIN ds.ex_hid : ds' = [ds EXCEPT !.ex_hid[i] = "e2"]
    /\ info' = [info EXCEPT !.mutations = @ + 1]
    /\ UNCHANGED <<path_list, examples_arg, load_call, samplerVars, pad>>

\* load_data(path, add_forward_triplet, add_backward_triplet), called directly
LoadDataCall ==
    /\ load_call.state = "none"
    /\ \E j \in 1..Len(path_list), f \in BOOLEAN, b \in BOOLEAN :
         LET r == load_data(path_list[j], f, b)
         IN load_call' = [state |-> r.state, file |-> path_list[j],
                          add_forward_triplet |-> f, add_backward_triplet |-> b,
                          value |-> r.value]
    /\ UNCHANGED <<path_list, examples_arg, ds, info, samplerVars, pad>>

(***************************************************************************)
(* Actions of the generator RelationBatchSampler.__iter__.                 *)
(***************************************************************************)
\* for i in range(self.length): the next i and lines 320-322, or StopIteration
IterNext ==
    /\ gen.pc = "for"
    /\ IF gen.i + 1 < sampler.length
       THEN gen' = [gen EXCEPT !.pc = "while", !.i = @ + 1,
                               !.sampled_exs = <<>>, !.sampled_relations = <<>>,
                               !.cake_sample_cnt =
                                   cake_sample_cnt(args.batch_size, args.cake_ratio)]
       ELSE gen' = [gen EXCEPT !.pc = "exhausted"]
    /\ UNCHANGED <<datasetVars, sampler, args, pad>>

\* one pass of the body of `while len(sampled_exs) < cake_sample_cnt`.  Lines
\* 332-338 only print, and only for more than 20 distinct heads in temp; the
\* `for i in temp` there rebinds i, which the enclosing for overwrites with the
\* next value of its range before i is read again.
PickRelation ==
    /\ gen.pc = "while"
    /\ Len(gen.sampled_exs) < gen.cake_sample_cnt
    /\ \E rel \in WeightedChoices(sampler.rel_ex_cnt) :
         IF NotYetSampled(rel, gen.sampled_relations)
         THEN \E o \in concept_filter(sampler, rel, sampler.batch_size \div RelationShare) :
                IF o.state = "returned"
                THEN gen' = [gen EXCEPT
                               !.sampled_relation = rel,
                               !.temp = o.value,
                               !.sampled_exs = SetToSortedSeq(Range(@ \o o.value)),
                               !.sampled_relations = Append(@, rel)]
                ELSE gen' = [gen EXCEPT !.sampled_relation = rel, !.pc = "raised"]
         ELSE gen' = [gen EXCEPT !.sampled_relation = rel]
    /\ UNCHANGED <<datasetVars, sampler, args, pad>>

\* the while test fails: random_sample_cnt = args.batch_size - cake_sample_cnt
LoopExit ==
    /\ gen.pc = "while"
    /\ ~(Len(gen.sampled_exs) < gen.cake_sample_cnt)
    /\ gen' = [gen EXCEPT !.pc = "random",
                          !.random_sample_cnt = args.batch_size - gen.cake_sample_cnt]
    /\ UNCHANGED <<datasetVars, sampler, args, pad>>

\* sampled_exs += random.choices(range(self.ex_cnt), k=random_sample_cnt); yield
RandomYield ==
    /\ gen.pc = "random"
    /\ \E o \in RandomChoices([j \in 1..sampler.ex_cnt |-> j - 1], gen.random_sample_cnt) :
         IF o.state = "returned"
         THEN gen' = [gen EXCEPT !.pc = "yielded",
                                 !.sampled_exs = @ \o o.value,
                                 !.yielded = @ + 1]
         ELSE gen' = [gen EXCEPT !.pc = "raised"]
    /\ UNCHANGED <<datasetVars, sampler, args, pad>>

\* the consumer asks for the next batch
Resume ==
    /\ gen.pc = "yielded"
    /\ gen' = [gen EXCEPT !.pc = "for"]
    /\ UNCHANGED <<datasetVars, sampler, args, pad>>

\* iter(sampler) again, after a pass has ended
Restart ==
    /\ gen.pc = "exhausted"
    /\ gen' = NewGen
    /\ UNCHANGED <<datasetVars, sampler, args, pad>>

(***************************************************************************)
(* The call of to_indices_and_mask.                                        *)
(***************************************************************************)
PadCall ==
    /\ pad.state = "none"
    /\ LET r == to_indices_and_mask(pad.batch_tensor, pad.pad_token_id, pad.need_mask)
       IN pad' = [pad EXCEPT !.state = r.state,
                             !.value = IF r.state = "returned" THEN r.value ELSE @]
    /\ UNCHANGED <<datasetVars, samplerVars>>

(***************************************************************************)
(* Specifications.                                                         *)
(***************************************************************************)
\* The (args.batch_size, args.cake_ratio, batch_size, cake_ratio) a sampler runs
\* with: the arguments of the constructor and the global configuration
Configs ==
    {[args |-> [batch_size |-> 8, cake_ratio |-> Ratio(11, 32)],
      batch_size |-> 8, cake_ratio |-> Ratio(11, 32)],
     [args |-> [batch_size |-> 2, cake_ratio |-> Ratio(1, 2)],
      batch_size |-> 16, cake_ratio |-> Ratio(1, 2)],
     [args |-> [batch_size |-> 2, cake_ratio |-> Ratio(1, 2)],
      batch_size |-> 8, cake_ratio |-> Ratio(1, 2)],
     [args |-> [batch_size |-> 2, cake_ratio |-> Ratio(1, 1)],
      batch_size |-> 16, cake_ratio |-> Ratio(1, 1)],
     [args |-> [batch_size |-> 2, cake_ratio |-> Ratio(1, 2)],
      batch_size |-> 2, cake_ratio |-> Ratio(1, 2)],
     [args |-> [batch_size |-> 2, cake_ratio |-> Ratio(3, 4)],
      batch_size |-> 16, cake_ratio |-> Ratio(3, 4)],
     [args |-> [batch_size |-> 3, cake_ratio |-> Ratio(0, 1)],
      batch_size |-> 2, cake_ratio |-> Ratio(1, 4)],
     [args |-> [batch_size |-> 4, cake_ratio |-> Ratio(3, 4)],
      batch_size |-> 16, cake_ratio |-> Ratio(3, 4)]}

\* A Dataset built over a list of examples, its ds_info() and their mutation
Init ==
    /\ path_list = <<File(FALSE, TRUE, <<>>)>>
    /\ examples_arg \in SeqsOf(ExampleUniverse, 1, MaxExamples)
    /\ ds = NewDataset
    /\ info = NoInfo
    /\ load_call = NoLoadCall
    /\ sampler = NoSampler
    /\ args = NoArgs
    /\ gen = NewGen
    /\ pad = NoPad

Next ==
    \/ DatasetInit
    \/ DsInfo
    \/ CallerAppendRel
    \/ CallerSetCount
    \/ CallerDelRelation
    \/ CallerSetBucket
    \/ CallerSetHead

Spec == Init /\ [][Next]_vars

\* A Dataset loaded from JSON files, and direct calls of load_data
LoadInit ==
    /\ path_list \in SeqsOf(FileUniverse, 1, MaxFiles)
    /\ examples_arg = <<>>
    /\ ds = NewDataset
    /\ info = NoInfo
    /\ load_call = NoLoadCall
    /\ sampler = NoSampler
    /\ args = NoArgs
    /\ gen = NewGen
    /\ pad = NoPad

LoadNext ==
    \/ DatasetInit
    \/ LoadDataCall

LoadSpec == LoadInit /\ [][LoadNext]_vars

\* A sampler constructed over the ds_info() of a Dataset, and its iteration
SamplerInit ==
    /\ path_list = <<File(FALSE, TRUE, <<>>)>>
    /\ examples_arg \in SeqsOf(ExampleUniverse, 1, MaxExamples)
    /\ ds = DatasetNew(path_list, examples_arg)
    /\ info = ds_info(ds)
    /\ load_call = NoLoadCall
    /\ \E c \in Configs :
         /\ args = c.args
         /\ sampler = SamplerNew(c.batch_size, Commonsense, c.cake_ratio, InfoView(info, ds))
    /\ gen = NewGen
    /\ pad = NoPad

SamplerNext ==
    \/ IterNext
    \/ PickRelation
    \/ LoopExit
    \/ RandomYield
    \/ Resume
    \/ Restart

SamplerSpec == SamplerInit /\ [][SamplerNext]_vars

\* Calls of to_indices_and_mask
PadInit ==
    /\ path_list = <<File(FALSE, TRUE, <<>>)>>
    /\ examples_arg = <<>>
    /\ ds = NewDataset
    /\ info = NoInfo
    /\ load_call = NoLoadCall
    /\ sampler = NoSampler
    /\ args = NoArgs
    /\ gen = NewGen
    /\ \E bt \in SeqsOf(SeqsOf({1, 2}, 0, MaxSeqLen), 0, MaxBatch),
          p \in {0, 9}, m \in BOOLEAN :
         pad = [NoPad EXCEPT !.batch_tensor = bt, !.pad_token_id = p, !.need_mask = m]

PadNext == PadCall

PadSpec == PadInit /\ [][PadNext]_vars

(***************************************************************************)
(* The claims.                                                             *)
(***************************************************************************)
\* Index i of the examples list, as Python counts it
ExampleAt(d, i) == d.examples[i + 1]

\* The (relation, tail_id) buckets of rel2ent_t that hold index i
BucketsHolding(rel2ent_t, i) ==
    {<<r, t>> \in UNION {{<<r2, t2>> : t2 \in DOMAIN rel2ent_t[r2]} : r2 \in DOMAIN rel2ent_t} :
        i \in Range(rel2ent_t[r][t])}

\* C1: after construction (before any caller touched the structures), every
\* example index i is in exactly one bucket of rel2ent_t, the bucket
\* rel2ent_t[examples[i].relation][examples[i].tail_id].
C1_EveryIndexInItsBucket ==
    (ds.state = "built" /\ ~info.taken) =>
        \A i \in 0..(Len(ds.examples) - 1) :
            BucketsHolding(ds.rel2ent_t, i)
                = {<<ExampleAt(ds, i).relation, ExampleAt(ds, i).tail_id>>}

\* C6: whatever a caller does to the structures ds_info() returned, the
\* Dataset's rels, rel2ent_t, rel_ex_cnt and ex_hid stay what construction built.
C6_SnapshotIsolated ==
    ds.state = "built" =>
        LET built == DatasetNew(path_list, examples_arg)
        IN /\ ds.rels = built.rels
           /\ ds.rel2ent_t = built.rel2ent_t
           /\ ds.rel_ex_cnt = built.rel_ex_cnt
           /\ ds.ex_hid = built.ex_hid

Bit(b) == IF b THEN 1 ELSE 0

\* The number of triplets in all the files of a path list
TripletCount(paths) == SumLens([j \in 1..Len(paths) |-> paths[j].data])

\* C7: a Dataset loaded from JSON files holds (number of triplets of all files)
\* * (forward + backward) examples, both directions being enabled by the
\* Dataset; a direct load_data call returns (number of triplets of its file) *
\* (forward + backward) examples.
C7_LenIsTripletsTimesDirections ==
    /\ (ds.state = "built" /\ examples_arg = <<>>) =>
           DatasetLen(ds) = TripletCount(path_list) * (Bit(TRUE) + Bit(TRUE))
    /\ load_call.state = "returned" =>
           Len(load_call.value)
               = Len(load_call.file.data)
                   * (Bit(load_call.add_forward_triplet) + Bit(load_call.add_backward_triplet))

\* C7 witness: a Dataset loaded from an empty file followed by a non-empty one,
\* and a load_data call with one direction on a non-empty file.
C7_Witness ==
    /\ ds.state = "built"
    /\ Len(path_list) >= 2
    /\ path_list[1].data = <<>>
    /\ path_list[2].data # <<>>
    /\ DatasetLen(ds) > 0
    /\ load_call.state = "returned"
    /\ load_call.file.data # <<>>
    /\ load_call.add_forward_triplet # load_call.add_backward_triplet

\* C8: for a non-empty batch the call returns; the output has one row per input
\* sequence and the width of the longest; row i is seq_i followed by
\* pad_token_id, and its mask is 1 on the first len(seq_i) positions, 0 after.
C8_PadRoundTrip ==
    (pad.state # "none" /\ pad.batch_tensor # <<>>) =>
        /\ pad.state = "returned"
        /\ LET bt == pad.batch_tensor
               ind == pad.value.indices
               msk == pad.value.mask
               rows == 1..Len(bt)
           IN /\ Len(ind) = Len(bt)
              /\ \E w \in {Len(bt[j]) : j \in rows} :
                   /\ \A j \in rows : Len(bt[j]) <= w
                   /\ \A i \in rows :
                        /\ Len(ind[i]) = w
                        /\ SubSeq(ind[i], 1, Len(bt[i])) = bt[i]
                        /\ \A c \in (Len(bt[i]) + 1)..w : ind[i][c] = pad.pad_token_id
                        /\ pad.need_mask =>
                             /\ Len(msk[i]) = w
                             /\ \A c \in 1..w : msk[i][c] = IF c <= Len(bt[i]) THEN 1 ELSE 0

\* C8 witness: a returned call on sequences of different lengths, with a
\* non-zero pad token and a mask.
C8_Witness ==
    /\ pad.state = "returned"
    /\ pad.need_mask
    /\ pad.pad_token_id # 0
    /\ \E i, j \in 1..Len(pad.batch_tensor) :
         Len(pad.batch_tensor[i]) < Len(pad.batch_tensor[j])

\* C2: every batch yielded has exactly batch_size elements, the batch size the
\* sampler was constructed with.
C2_BatchHasBatchSize ==
    gen.pc = "yielded" => Len(YieldedBatch(gen, sampler)) = sampler.batch_size

\* C3: a pass ends only after exactly `length` batches, and (with the
\* configuration equal to the constructor's arguments) the inner loop can
\* always exit: while the constrained portion is short of its target there is a
\* relation left that has not been used in this iteration.
C3_PassTerminates ==
    /\ gen.pc = "exhausted" => gen.yielded = SamplerLen(sampler)
    /\ (/\ gen.pc = "while"
        /\ Len(gen.sampled_exs) < gen.cake_sample_cnt
        /\ args.batch_size = sampler.batch_size
        /\ args.cake_ratio = sampler.cake_ratio) =>
           \E r \in DOMAIN sampler.rel_ex_cnt : r \notin Range(gen.sampled_relations)

\* The constrained part of sampled_exs: all of it before the random indices
\* are appended, all but the last random_sample_cnt after
ConstrainedLen ==
    IF gen.pc = "yielded" THEN Len(gen.sampled_exs) - gen.random_sample_cnt
    ELSE Len(gen.sampled_exs)

\* C4 as stated: with the configuration equal to the constructor's arguments,
\* the target is round(batch_size * cake_ratio): when the sampler stops picking
\* relations the constrained set has at least that many elements, and
\* batch_size - round(batch_size * cake_ratio) random indices are appended.
C4_TargetIsRounded ==
    (/\ gen.pc \in {"random", "yielded"}
     /\ args.batch_size = sampler.batch_size
     /\ args.cake_ratio = sampler.cake_ratio) =>
        LET target == RoundProduct(sampler.batch_size, sampler.cake_ratio)
        IN /\ ConstrainedLen >= target
           /\ gen.random_sample_cnt = sampler.batch_size - target

\* C4 amended: the target is int(args.batch_size * args.cake_ratio), the
\* product of the global configuration truncated: when the sampler stops
\* picking relations the constrained set has at least that many elements and
\* exceeds the target by less than self.batch_size // 8 (or not at all), and
\* args.batch_size - target random indices are appended.
C4_TargetIsTruncated ==
    gen.pc \in {"random", "yielded"} =>
        LET target == (args.batch_size * args.cake_ratio.num) \div args.cake_ratio.den
            share == sampler.batch_size \div 8
        IN /\ ConstrainedLen >= target
           /\ ConstrainedLen = target \/ ConstrainedLen < target + share
           /\ gen.random_sample_cnt = args.batch_size - target

\* C4 witness: a batch was yielded whose constrained part exceeds a non-zero
\* target, with random indices appended.
C4_Witness ==
    /\ gen.pc = "yielded"
    /\ gen.cake_sample_cnt > 0
    /\ ConstrainedLen > gen.cake_sample_cnt
    /\ gen.random_sample_cnt > 0

\* The entities of the domains of a relation: tail-side for a forward relation,
\* head-side of the base relation for 'inverse base'
DomainEntities(s, relation) ==
    LET doms == IF relation[1] = "inverse " THEN s.rel2dom_h[Tail(relation)]
                ELSE s.rel2dom_t[relation]
    IN UNION {Range(s.dom_ent[Str[doms[c]]]) : c \in 1..Len(doms)}

ZeroOverlap(s, relation) ==
    DomainEntities(s, relation) \cap DOMAIN s.rel2ent_t[relation] = {}

\* C5: a concept_filter call (a relation picked for the first time in the
\* iteration) with k > 0 on a relation of zero overlap raises: the generator
\* ends there, with no batch yielded for the iteration and nothing added, and
\* never resumes; with k = 0, or some overlap, the call returns k indices.
C5_EmptyPoolRaises ==
    /\ [](gen.pc = "raised" => gen.yielded = gen.i)
    /\ [][/\ gen.pc = "raised" => gen' = gen
          /\ (/\ gen.pc = "while"
              /\ Len(gen.sampled_exs) < gen.cake_sample_cnt
              /\ gen' # gen
              /\ gen'.sampled_relation \notin Range(gen.sampled_relations)) =>
                 IF sampler.batch_size \div 8 > 0 /\ ZeroOverlap(sampler, gen'.sampled_relation)
                 THEN /\ gen'.pc = "raised"
                      /\ gen'.sampled_exs = gen.sampled_exs
                      /\ gen'.yielded = gen.yielded
                 ELSE /\ gen'.pc = "while"
                      /\ Len(gen'.temp) = sampler.batch_size \div 8]_vars

\* C5 witness: the generator ended by a raise of concept_filter on a relation
\* of zero overlap.
C5_Witness ==
    /\ gen.pc = "raised"
    /\ sampler.batch_size \div 8 > 0
    /\ ZeroOverlap(sampler, gen.sampled_relation)

NoDuplicates(seq) == \A a, b \in 1..Len(seq) : seq[a] = seq[b] => a = b

\* C9: within an iteration no relation is used twice; a relation drawn again
\* adds no index and is not recorded again, a relation drawn for the first time
\* is recorded; each iteration starts with no relation used.
C9_RelationsWithoutReplacement ==
    /\ [](NoDuplicates(gen.sampled_relations))
    /\ [][/\ (gen.pc = "while" /\ gen'.pc = "while" /\ gen' # gen) =>
                 IF gen'.sampled_relation \in Range(gen.sampled_relations)
                 THEN /\ gen'.sampled_exs = gen.sampled_exs
                      /\ gen'.sampled_relations = gen.sampled_relations
                 ELSE gen'.sampled_relations
                          = Append(gen.sampled_relations, gen'.sampled_relation)
          /\ (gen.pc = "for" /\ gen'.pc = "while") => gen'.sampled_relations = <<>>]_vars

\* C9 witness: two relations have been used in the iteration and the one used
\* first was drawn again.
C9_Witness ==
    /\ gen.pc = "while"
    /\ Len(gen.sampled_relations) = 2
    /\ gen.sampled_relation = gen.sampled_relations[1]

\* The examples a concept_filter call on a relation is meant to draw from
DomainExamples(s, relation) ==
    {i \in DOMAIN s.id2example :
        /\ s.id2example[i].relation = relation
        /\ s.id2example[i].tail_id \in DomainEntities(s, relation)}

\* C10: after a concept_filter call that returned from a non-empty pool, the
\* call returned exactly k indices, all of them examples of the relation whose
\* tail is in one of its domains, and every such example is in the pool.
C10_PoolIsDomainExamples ==
    (gen.pc = "while" /\ gen.sampled_relations # <<>>
       /\ ConceptPool(sampler, gen.sampled_relations[Len(gen.sampled_relations)]) # <<>>) =>
        LET relation == gen.sampled_relations[Len(gen.sampled_relations)]
        IN /\ (gen.sampled_relation = relation =>
                 /\ Len(gen.temp) = sampler.batch_size \div 8
                 /\ Range(gen.temp) \subseteq DomainExamples(sampler, relation))
           /\ Range(ConceptPool(sampler, relation)) = DomainExamples(sampler, relation)

====
